---- MODULE Spec2Model ----
(***************************************************************************)
(* Model of the vendoring commands of package rewrite (command.go):        *)
(* CmdInit, CmdList, CmdAdd, CmdUpdate and CmdRemove, acting on a project  *)
(* tree, a workspace (GOPATH) and the manifest internal/vendor.json.       *)
(*                                                                         *)
(* Strings are sequences of byte values, so that strings.Compare,          *)
(* strings.Split and path.Join are computed byte by byte.                  *)
(***************************************************************************)
EXTENDS Integers, Sequences, FiniteSets, TLC

----------------------------------------------------------------------------
(* Bounds *)

\* largest number of packages in a loaded context handed to the list sort
MaxListLen == 3
\* largest number of entries the manifest may hold before CmdAdd is no
\* longer called
MaxPackages == 2

----------------------------------------------------------------------------
(* Byte strings *)

Slash == <<47>>
Backslash == <<92>>
Dot == <<46>>
DotDot == <<46, 46>>
Empty == <<>>

RECURSIVE StrCompare(_, _)
\* strings.Compare: -1, 0 or 1 by bytewise lexicographic order
StrCompare(a, b) ==
  IF a = <<>> /\ b = <<>> THEN 0
  ELSE IF a = <<>> THEN -1
  ELSE IF b = <<>> THEN 1
  ELSE IF Head(a) < Head(b) THEN -1
  ELSE IF Head(a) > Head(b) THEN 1
  ELSE StrCompare(Tail(a), Tail(b))

HasPrefix(s, p) ==
  /\ Len(p) <= Len(s)
  /\ SubSeq(s, 1, Len(p)) = p

HasSuffix(s, p) ==
  /\ Len(p) <= Len(s)
  /\ SubSeq(s, Len(s) - Len(p) + 1, Len(s)) = p

\* strings.Index, 1-based; 0 when sep does not occur in s
Index(s, sep) ==
  LET hits == {i \in 1..(Len(s) - Len(sep) + 1) : SubSeq(s, i, i + Len(sep) - 1) = sep}
  IN IF hits = {} THEN 0 ELSE CHOOSE i \in hits : \A j \in hits : i <= j

RECURSIVE Split(_, _)
\* strings.Split for a non-empty separator: the substrings between the
\* occurrences of sep, scanning left to right
Split(s, sep) ==
  LET i == Index(s, sep)
  IN IF i = 0 THEN <<s>>
     ELSE <<SubSeq(s, 1, i - 1)>> \o Split(SubSeq(s, i + Len(sep), Len(s)), sep)

RECURSIVE JoinWith(_, _)
\* strings.Join
JoinWith(elems, sep) ==
  IF elems = <<>> THEN <<>>
  ELSE IF Len(elems) = 1 THEN elems[1]
  ELSE elems[1] \o sep \o JoinWith(Tail(elems), sep)

RECURSIVE CleanElems(_, _, _)
\* the element pass of path.Clean: drops empty and "." elements, and lets
\* ".." remove the element before it (kept on a relative path with nothing
\* to remove, dropped at the root)
CleanElems(elems, out, rooted) ==
  IF elems = <<>> THEN out
  ELSE LET e == Head(elems) IN
       IF e = Empty \/ e = Dot THEN CleanElems(Tail(elems), out, rooted)
       ELSE IF e = DotDot THEN
              IF out # <<>> /\ out[Len(out)] # DotDot
                THEN CleanElems(Tail(elems), SubSeq(out, 1, Len(out) - 1), rooted)
              ELSE IF rooted THEN CleanElems(Tail(elems), out, rooted)
              ELSE CleanElems(Tail(elems), Append(out, e), rooted)
       ELSE CleanElems(Tail(elems), Append(out, e), rooted)

\* path.Clean
PathClean(p) ==
  IF p = <<>> THEN Dot
  ELSE LET rooted == HasPrefix(p, Slash)
           body == JoinWith(CleanElems(Split(p, Slash), <<>>, rooted), Slash)
       IN IF rooted THEN Slash \o body
          ELSE IF body = <<>> THEN Dot ELSE body

\* path.Join: the non-empty elements joined by "/" and cleaned; "" when
\* every element is empty
PathJoin(elems) ==
  LET nonEmpty == SelectSeq(elems, LAMBDA e : e # <<>>)
  IN IF nonEmpty = <<>> THEN <<>> ELSE PathClean(JoinWith(nonEmpty, Slash))

----------------------------------------------------------------------------
(* ListStatus and the list order *)

StatusUnknown == 0
StatusMissing == 1
StatusStd == 2
StatusLocal == 3
StatusExternal == 4
StatusInternal == 5
StatusUnused == 6

ListStatus == StatusUnknown..StatusUnused

\* ListItemSort.Less with the status order reversed
LessAscendingStatus(li, i, j) ==
  IF li[i].Status = li[j].Status
    THEN StrCompare(li[i].Path, li[j].Path) < 0
    ELSE li[i].Status < li[j].Status

\* ListItemSort.Less
Less(li, i, j) ==
  IF li[i].Status = li[j].Status
    THEN StrCompare(li[i].Path, li[j].Path) < 0
    ELSE li[i].Status > li[j].Status

\* ListItemSort.Swap
Swap(li, i, j) == [li EXCEPT ![i] = li[j], ![j] = li[i]]

RECURSIVE SiftBack(_, _)
\* inner loop of the insertion sort sort.Sort runs on fewer than 12 items:
\* for j := i; j > a && Less(j, j-1); j-- { Swap(j, j-1) }
SiftBack(li, j) ==
  IF j > 1 /\ Less(li, j, j - 1) THEN SiftBack(Swap(li, j, j - 1), j - 1) ELSE li

RECURSIVE InsertionSort(_, _)
\* outer loop: for i := a + 1; i < b; i++
InsertionSort(li, i) ==
  IF i > Len(li) THEN li ELSE InsertionSort(SiftBack(li, i), i + 1)

\* sort.Sort(ListItemSort(li))
SortList(li) == InsertionSort(li, 2)

\* the orders in which a range over the map ctx.Package may visit the keys
Orders(keys) ==
  {o \in [1..Cardinality(keys) -> keys] : \A i, j \in DOMAIN o : i # j => o[i] # o[j]}

\* body of CmdList after the load: project every package to a ListItem in
\* map order, then sort
ListItems(package, order) ==
  SortList([i \in DOMAIN order |-> [Status |-> package[order[i]].Status,
                                     Path |-> package[order[i]].ImportPath]])

----------------------------------------------------------------------------
(* Program constants and the import paths of the modelled workspace *)

internalFolder == <<105, 110, 116, 101, 114, 110, 97, 108>>
toolName == "github.com/kardianos/vendor"

\* internalFolderSlash, for the platform's filepath.Separator
internalFolderSlash(sep) == sep \o internalFolder \o sep

\* import path of the project (ctx.RootImportPath): "r"
RootImportPath == <<114>>
\* "e/f", and the same path typed with a backslash
PathEF == <<101, 47, 102>>
ArgEBackslashF == <<101, 92, 102>>
\* "a/internal/f"
PathAIF == <<97>> \o Slash \o internalFolder \o Slash \o <<102>>
\* "b/internal/c/internal/f"
PathBICIF == <<98>> \o Slash \o internalFolder \o Slash \o <<99>> \o Slash \o internalFolder \o Slash \o <<102>>
\* "r/p", a package of the project itself
PathRP == RootImportPath \o Slash \o <<112>>
\* "s", a package of the toolchain root
PathStd == <<115>>
\* "m", found nowhere
PathMissing == <<109>>
\* "r/internal/e/f" and "r/internal/f", destinations inside the project
PathRIEF == RootImportPath \o Slash \o internalFolder \o Slash \o PathEF
PathRIF == RootImportPath \o Slash \o internalFolder \o Slash \o <<102>>

StdPaths == {PathStd}

\* the arguments CmdAdd is called with
ImportPathArgs ==
  {PathEF, ArgEBackslashF, PathAIF, PathBICIF, PathRP, PathStd, PathMissing, Empty, PathRIEF}

\* the arguments CmdUpdate and CmdRemove are called with
UpdateArgs == {PathEF, PathMissing}

Separators == {Slash, Backslash}

\* the source files of the workspace before any command: file <<dir, name>>
\* with the set of import paths it references
InitialTree ==
  (<<RootImportPath, "main.go">> :> {PathEF, PathAIF}) @@
  (<<PathRP, "p.go">> :> {PathBICIF}) @@
  (<<PathEF, "f.go">> :> {PathStd}) @@
  (<<PathEF, "f_test.go">> :> {PathEF}) @@
  (<<PathAIF, "f.go">> :> {}) @@
  (<<PathBICIF, "f.go">> :> {})

----------------------------------------------------------------------------
(* Errors *)

Err(kind) == [Kind |-> kind, Missing |-> Empty]
Nil == Err("nil")
ErrVendorFileExists == Err("ErrVendorFileExists")
ErrMissingVendorFile == Err("ErrMissingVendorFile")
ErrVendorExists == Err("ErrVendorExists")
ErrLocalPackage == Err("ErrLocalPackage")
ErrNotInGOPATH(missing) == [Kind |-> "ErrNotInGOPATH", Missing |-> missing]

----------------------------------------------------------------------------
(* Collaborators of the commands: context, copy, rewrite *)

\* strings.Replace(path, `\`, "/", -1)
slashToImportPath(path) == [i \in DOMAIN path |-> IF <<path[i]>> = Backslash THEN Slash[1] ELSE path[i]]

InProject(dir) == dir = RootImportPath \/ HasPrefix(dir, RootImportPath \o Slash)

UnderInternal(dir) == HasPrefix(dir, RootImportPath \o Slash \o internalFolder \o Slash)

DirExists(t, dir) == \E f \in DOMAIN t : f[1] = dir

ProjectFiles(t) == {f \in DOMAIN t : InProject(f[1])}

Imported(t) == UNION {t[f] : f \in ProjectFiles(t)}

VendorPaths(vf) == {vf.Package[i].Vendor : i \in DOMAIN vf.Package}
LocalPaths(vf) == {vf.Package[i].Local : i \in DOMAIN vf.Package}

\* what follows the first "/internal/" of an import path (all of it when
\* there is none)
AfterFirstInternal(p) ==
  LET sep == Slash \o internalFolder \o Slash
      i == Index(p, sep)
  IN IF i = 0 THEN p ELSE SubSeq(p, i + Len(sep), Len(p))

MatchesLocal(suffix, local) ==
  local = suffix \/ HasSuffix(local, Slash \o internalFolder \o Slash \o suffix)

\* the status of one import path
Classify(p, t, vf) ==
  IF p = Empty THEN StatusUnknown
  ELSE IF p \in VendorPaths(vf) /\ p \notin Imported(t) THEN StatusUnused
  ELSE IF ~DirExists(t, p) /\ p \notin StdPaths THEN StatusMissing
  ELSE IF p \in StdPaths THEN StatusStd
  ELSE IF InProject(p) /\ ~UnderInternal(p) THEN StatusLocal
  ELSE IF UnderInternal(p) \/ \E l \in LocalPaths(vf) : MatchesLocal(AfterFirstInternal(p), l)
    THEN StatusInternal
  ELSE StatusExternal

\* ctx.LoadPackage(focus...): the package of every import path met in the
\* project, named by the manifest or asked for, and the reverse index
LoadPackage(t, vf, focus) ==
  LET paths == Imported(t) \cup VendorPaths(vf) \cup focus
  IN [Package |-> [p \in paths |-> [ImportPath |-> p, Dir |-> p, Status |-> Classify(p, t, vf)]],
      fileImports |-> [p \in paths |-> {f \in ProjectFiles(t) : p \in t[f]}]]

\* CopyPackage refuses a destination that already holds files
CopyRefused(t, dest) == DirExists(t, dest)

\* CopyPackage(src, dest): every file of src also exists under dest
CopyPackage(t, src, dest) ==
  LET srcFiles == {g \in DOMAIN t : g[1] = src \/ HasPrefix(g[1], src \o Slash)}
      Target(g) == <<dest \o SubSeq(g[1], Len(src) + 1, Len(g[1])), g[2]>>
  IN [f \in DOMAIN t \cup {Target(g) : g \in srcFiles} |->
        IF f \in DOMAIN t THEN t[f]
        ELSE t[CHOOSE g \in srcFiles : Target(g) = f]]

\* one rule applied to the imports of one file
ApplyRule(imports, rule) ==
  IF rule.From \in imports THEN (imports \ {rule.From}) \cup {rule.To} ELSE imports

RECURSIVE ApplyRules(_, _)
ApplyRules(imports, rules) ==
  IF rules = <<>> THEN imports ELSE ApplyRules(ApplyRule(imports, Head(rules)), Tail(rules))

\* RewriteFiles(files, rules)
RewriteFiles(t, files, rules) ==
  [f \in DOMAIN t |-> IF f \in files THEN ApplyRules(t[f], rules) ELSE t[f]]

----------------------------------------------------------------------------
(* State *)

VARIABLES
  Separator,          \* filepath.Separator of the platform the tool was built for
  internalNode,       \* what <wd>/internal is: "absent", "dir" or "file"
  vendorFilePresent,  \* whether <wd>/internal/vendor.json exists
  vendorFile,         \* the persisted VendorFile: [Tool, Package]
  tree,               \* source files of the workspace: <<dir, name>> -> imports
  ctxPackage,         \* ctx.Package of the context CmdList loaded last
  lastCmd,            \* the command that ran last
  lastArg,            \* its importPath argument
  lastErr,            \* the error it returned
  lastStage,          \* the statement of CmdAdd at which it returned
  lastStatus,         \* pkg.Status seen by the status check of CmdAdd
  lastList,           \* the list CmdList returned
  lastRewrite         \* the arguments of the RewriteFiles call of CmdAdd

disk == <<internalNode, vendorFilePresent, vendorFile, tree>>
vars == <<Separator, internalNode, vendorFilePresent, vendorFile, tree, ctxPackage,
          lastCmd, lastArg, lastErr, lastStage, lastStatus, lastList, lastRewrite>>

NoVendorFile == [Tool |-> "", Package |-> <<>>]
NoStatus == 0 - 1
NoRewrite == [called |-> FALSE, files |-> {}, rules |-> <<>>]
NoPackages == [p \in {} |-> 0]

Init ==
  /\ Separator \in Separators
  /\ internalNode \in {"absent", "dir", "file"}
  /\ vendorFilePresent = FALSE
  /\ vendorFile = NoVendorFile
  /\ tree = InitialTree
  /\ ctxPackage = NoPackages
  /\ lastCmd = "none"
  /\ lastArg = Empty
  /\ lastErr = Nil
  /\ lastStage = "none"
  /\ lastStatus = NoStatus
  /\ lastList = <<>>
  /\ lastRewrite = NoRewrite

----------------------------------------------------------------------------
(* CmdInit *)

InitFaults == {"none", "getwd", "stat", "mkdir", "write"}

\* os.IsNotExist(err) for the err of os.Stat(<wd>/internal/vendor.json):
\* Stat fails with another error when it is denied access (fault "stat") or
\* when <wd>/internal is a regular file
StatIsNotExist(fault, node, present) ==
  /\ fault # "stat"
  /\ node # "file"
  /\ ~present

CmdInit(fault) ==
  /\ lastCmd' = "Init"
  /\ lastArg' = Empty
  /\ lastStage' = "none"
  /\ lastStatus' = NoStatus
  /\ lastList' = <<>>
  /\ lastRewrite' = NoRewrite
  /\ UNCHANGED <<Separator, tree, ctxPackage>>
  /\ IF fault = "getwd" THEN
       /\ lastErr' = Err("GetwdError")
       /\ UNCHANGED <<internalNode, vendorFilePresent, vendorFile>>
     ELSE IF StatIsNotExist(fault, internalNode, vendorFilePresent) = FALSE THEN
       /\ lastErr' = ErrVendorFileExists
       /\ UNCHANGED <<internalNode, vendorFilePresent, vendorFile>>
     ELSE IF fault = "mkdir" THEN
       /\ lastErr' = Err("MkdirError")
       /\ UNCHANGED <<internalNode, vendorFilePresent, vendorFile>>
     ELSE IF fault = "write" THEN
       /\ lastErr' = Err("WriteError")
       /\ internalNode' = "dir"
       /\ UNCHANGED <<vendorFilePresent, vendorFile>>
     ELSE
       /\ lastErr' = Nil
       /\ internalNode' = "dir"
       /\ vendorFilePresent' = TRUE
       /\ vendorFile' = [Tool |-> toolName, Package |-> <<>>]

----------------------------------------------------------------------------
(* CmdList *)

RECURSIVE Ascending(_)
\* the paths of a set in ascending byte order
Ascending(paths) ==
  IF paths = {} THEN <<>>
  ELSE LET least == CHOOSE p \in paths : \A q \in paths : StrCompare(p, q) <= 0
       IN <<least>> \o Ascending(paths \ {least})

Reverse(seq) == [i \in DOMAIN seq |-> seq[Len(seq) + 1 - i]]

ListFaults == {"none", "load"}

CmdList(fault, descending) ==
  /\ lastCmd' = "List"
  /\ lastArg' = Empty
  /\ lastStage' = "none"
  /\ lastStatus' = NoStatus
  /\ lastRewrite' = NoRewrite
  /\ UNCHANGED <<Separator, internalNode, vendorFilePresent, vendorFile, tree>>
  /\ IF ~vendorFilePresent THEN
       /\ lastErr' = ErrMissingVendorFile
       /\ lastList' = <<>>
       /\ UNCHANGED ctxPackage
     ELSE IF fault = "load" THEN
       /\ lastErr' = Err("LoadError")
       /\ lastList' = <<>>
       /\ UNCHANGED ctxPackage
     ELSE
       LET ctx == LoadPackage(tree, vendorFile, {})
           asc == Ascending(DOMAIN ctx.Package)
           order == IF descending THEN Reverse(asc) ELSE asc
       IN /\ lastErr' = Nil
          /\ ctxPackage' = ctx.Package
          /\ lastList' = ListItems(ctx.Package, order)

----------------------------------------------------------------------------
(* CmdAdd *)

\* the status check of CmdAdd: the error it returns, Nil to proceed, with
\* Internal and Local exchanged
AddErrorSwapped(status, importPath) ==
  IF status # StatusExternal THEN
    IF status = StatusLocal THEN ErrVendorExists
    ELSE IF status = StatusInternal THEN ErrLocalPackage
    ELSE ErrNotInGOPATH(importPath)
  ELSE Nil

\* the status check of CmdAdd: the error it returns, Nil to proceed
AddError(status, importPath) ==
  IF status # StatusExternal THEN
    IF status = StatusInternal THEN ErrVendorExists
    ELSE IF status = StatusLocal THEN ErrLocalPackage
    ELSE ErrNotInGOPATH(importPath)
  ELSE Nil

\* the local import path with only the final path component kept
LocalImportPathFinalComponent(rootImportPath, importPath, sep) ==
  LET ss == Split(importPath, Slash)
  IN PathJoin(<<rootImportPath, internalFolder, ss[Len(ss)]>>)

\* ss := strings.Split(importPath, internalFolderSlash)
\* localImportPath := path.Join(ctx.RootImportPath, internalFolder, ss[len(ss)-1])
LocalImportPath(rootImportPath, importPath, sep) ==
  LET ss == Split(importPath, internalFolderSlash(sep))
  IN PathJoin(<<rootImportPath, internalFolder, ss[Len(ss)]>>)

\* the new entry put in front of the list
PrependPackage(vf, importPath, localImportPath) ==
  [vf EXCEPT !.Package = <<[Vendor |-> importPath, Local |-> localImportPath]>> \o @]

\* ctx.VendorFile.Package = append(ctx.VendorFile.Package, &VendorPackage{...})
AppendPackage(vf, importPath, localImportPath) ==
  [vf EXCEPT !.Package = Append(@, [Vendor |-> importPath, Local |-> localImportPath])]

\* the files to rewrite taken from the first load
AddFilesFromFirstLoad(loaded, reloaded, importPath) == loaded.fileImports[importPath]

\* files := ctx.fileImports[importPath], read after the second LoadPackage
AddFiles(loaded, reloaded, importPath) == reloaded.fileImports[importPath]

AddFaults == {"none", "load", "write", "copy", "reload", "rewrite"}

\* the statement at which CmdAdd returns
AddStage(present, fault, statusErr, copyRefused) ==
  IF ~present THEN "ctx"
  ELSE IF fault = "load" THEN "load"
  ELSE IF statusErr # Nil THEN "status"
  ELSE IF fault = "write" THEN "write"
  ELSE IF fault = "copy" \/ copyRefused THEN "copy"
  ELSE IF fault = "reload" THEN "reload"
  ELSE IF fault = "rewrite" THEN "rewrite"
  ELSE "done"

\* the manifest written only when the whole of CmdAdd succeeds
VendorFileAfterAddRollback(stage, old, appended) ==
  IF stage = "done" THEN appended ELSE old

\* the manifest written before the status check
VendorFileAfterAddEager(stage, old, appended) ==
  IF stage \in {"status", "copy", "reload", "rewrite", "done"} THEN appended ELSE old

\* the manifest on disk when CmdAdd returns at stage: writeVendorFile ran
\* iff CmdAdd got past it
VendorFileAfterAdd(stage, old, appended) ==
  IF stage \in {"copy", "reload", "rewrite", "done"} THEN appended ELSE old

\* the source files when CmdAdd returns at stage: CopyPackage ran iff CmdAdd
\* got past it, RewriteFiles iff it returned nil
TreeAfterAdd(stage, old, copied, rewritten) ==
  IF stage \in {"reload", "rewrite"} THEN copied
  ELSE IF stage = "done" THEN rewritten
  ELSE old

CmdAdd(arg, fault) ==
  /\ Len(vendorFile.Package) < MaxPackages
  /\ \E importPath \in {slashToImportPath(arg)} :
     \E ctx \in {LoadPackage(tree, vendorFile, {importPath})} :
     \E pkg \in {ctx.Package[importPath]} :
     \E localImportPath \in {LocalImportPath(RootImportPath, importPath, Separator)} :
     \E statusErr \in {AddError(pkg.Status, importPath)} :
     \E stage \in {AddStage(vendorFilePresent, fault, statusErr, CopyRefused(tree, localImportPath))} :
       LET appended == AppendPackage(vendorFile, importPath, localImportPath)
           copied == CopyPackage(tree, pkg.Dir, localImportPath)
           reloaded == LoadPackage(copied, appended, {importPath})
           rules == <<[From |-> importPath, To |-> localImportPath]>>
       IN \E files \in {IF stage \in {"rewrite", "done"}
                          THEN AddFiles(ctx, reloaded, importPath) ELSE {}} :
            /\ lastCmd' = "Add"
            /\ lastArg' = arg
            /\ lastStage' = stage
            /\ lastList' = <<>>
            /\ lastStatus' = IF stage \in {"ctx", "load"} THEN NoStatus ELSE pkg.Status
            /\ lastErr' = CASE stage = "ctx" -> ErrMissingVendorFile
                            [] stage = "load" -> Err("LoadError")
                            [] stage = "status" -> statusErr
                            [] stage = "write" -> Err("WriteError")
                            [] stage = "copy" -> Err("CopyError")
                            [] stage = "reload" -> Err("LoadError")
                            [] stage = "rewrite" -> Err("RewriteError")
                            [] stage = "done" -> Nil
            /\ lastRewrite' = IF stage \in {"rewrite", "done"}
                                THEN [called |-> TRUE, files |-> files, rules |-> rules]
                                ELSE NoRewrite
            /\ vendorFile' = VendorFileAfterAdd(stage, vendorFile, appended)
            /\ tree' = TreeAfterAdd(stage, tree, copied, RewriteFiles(copied, files, rules))
            /\ UNCHANGED <<Separator, internalNode, vendorFilePresent, ctxPackage>>

----------------------------------------------------------------------------
(* CmdUpdate and CmdRemove *)

\* a CmdRemove that drops the entries of importPath from the manifest
CmdRemoveDropping(importPath) ==
  /\ lastCmd' = "Remove"
  /\ lastArg' = importPath
  /\ lastErr' = Nil
  /\ lastStage' = "none"
  /\ lastStatus' = NoStatus
  /\ lastList' = <<>>
  /\ lastRewrite' = NoRewrite
  /\ vendorFile' = [vendorFile EXCEPT !.Package = SelectSeq(@, LAMBDA e : e.Vendor # importPath)]
  /\ UNCHANGED <<Separator, internalNode, vendorFilePresent, tree, ctxPackage>>

CmdUpdate(importPath) ==
  /\ lastCmd' = "Update"
  /\ lastArg' = importPath
  /\ lastErr' = Nil
  /\ lastStage' = "none"
  /\ lastStatus' = NoStatus
  /\ lastList' = <<>>
  /\ lastRewrite' = NoRewrite
  /\ UNCHANGED <<Separator, internalNode, vendorFilePresent, vendorFile, tree, ctxPackage>>

CmdRemove(importPath) ==
  /\ lastCmd' = "Remove"
  /\ lastArg' = importPath
  /\ lastErr' = Nil
  /\ lastStage' = "none"
  /\ lastStatus' = NoStatus
  /\ lastList' = <<>>
  /\ lastRewrite' = NoRewrite
  /\ UNCHANGED <<Separator, internalNode, vendorFilePresent, vendorFile, tree, ctxPackage>>

----------------------------------------------------------------------------
(* Specification of the commands *)

Next ==
  \/ \E fault \in InitFaults : CmdInit(fault)
  \/ \E fault \in ListFaults, descending \in BOOLEAN : CmdList(fault, descending)
  \/ \E arg \in ImportPathArgs, fault \in AddFaults : CmdAdd(arg, fault)
  \/ \E arg \in UpdateArgs : CmdUpdate(arg)
  \/ \E arg \in UpdateArgs : CmdRemove(arg)

Spec == Init /\ [][Next]_vars

----------------------------------------------------------------------------
(* Specification of the list sort alone, over every small package map *)

\* "a", "a-b", "a/b", "b"
ListPaths == {<<97>>, <<97, 45, 98>>, <<97, 47, 98>>, <<98>>}

InitList ==
  /\ \E keys \in SUBSET ListPaths :
       /\ Cardinality(keys) <= MaxListLen
       /\ \E status \in [keys -> ListStatus] :
            ctxPackage = [p \in keys |-> [ImportPath |-> p, Dir |-> p, Status |-> status[p]]]
  /\ Separator = Slash
  /\ internalNode = "dir"
  /\ vendorFilePresent = TRUE
  /\ vendorFile = [Tool |-> toolName, Package |-> <<>>]
  /\ tree = InitialTree
  /\ lastCmd = "none"
  /\ lastArg = Empty
  /\ lastErr = Nil
  /\ lastStage = "none"
  /\ lastStatus = NoStatus
  /\ lastList = <<>>
  /\ lastRewrite = NoRewrite

\* CmdList from the loaded context on, the map visited in the given order
ListLoaded(order) ==
  /\ lastCmd = "none"
  /\ lastCmd' = "List"
  /\ lastList' = ListItems(ctxPackage, order)
  /\ UNCHANGED <<Separator, internalNode, vendorFilePresent, vendorFile, tree, ctxPackage,
                 lastArg, lastErr, lastStage, lastStatus, lastRewrite>>

NextList == \E order \in Orders(DOMAIN ctxPackage) : ListLoaded(order)

SpecList == InitList /\ [][NextList]_vars

----------------------------------------------------------------------------
(* Properties *)

\* C1: the list CmdList returns is sorted: each item is followed by one of
\* strictly lower status, or of the same status and a path that is not
\* smaller in byte order; and it holds one item per package of the context
ListSorted ==
  lastCmd = "List" /\ lastErr = Nil =>
    /\ Len(lastList) = Cardinality(DOMAIN ctxPackage)
    /\ \A p \in DOMAIN ctxPackage :
         \E i \in DOMAIN lastList :
           lastList[i] = [Status |-> ctxPackage[p].Status, Path |-> ctxPackage[p].ImportPath]
    /\ \A i \in 1..(Len(lastList) - 1) :
         \/ lastList[i].Status > lastList[i + 1].Status
         \/ /\ lastList[i].Status = lastList[i + 1].Status
            /\ StrCompare(lastList[i].Path, lastList[i + 1].Path) <= 0

\* a returned list of three or more items with a tie on status and a
\* change of status in it
ListSortedWitness ==
  /\ lastCmd = "List"
  /\ Len(lastList) >= 3
  /\ \E i \in 1..(Len(lastList) - 1) :
       lastList[i].Status = lastList[i + 1].Status /\ lastList[i].Path # lastList[i + 1].Path
  /\ \E i \in 1..(Len(lastList) - 1) : lastList[i].Status = StatusUnused /\ lastList[i + 1].Status = StatusInternal

\* the import path CmdAdd worked on in its last call
lastImportPath == slashToImportPath(lastArg)

\* the last call was a CmdAdd that got past writeVendorFile
AddWrote == lastCmd = "Add" /\ lastStage \in {"copy", "reload", "rewrite", "done"}

LastPackage(vf) == vf.Package[Len(vf.Package)]

\* C2: CmdAdd goes past its status check only when the status of the
\* focused package is External; for any other status it returns
\* ErrVendorExists (Internal), ErrLocalPackage (Local) or ErrNotInGOPATH
\* carrying the import path (Unknown, Missing, Std, Unused)
AddStatusCheck ==
  lastCmd = "Add" /\ lastStatus # NoStatus =>
    /\ lastStage # "status" <=> lastStatus = StatusExternal
    /\ lastStage = "status" =>
         /\ lastStatus = StatusInternal => lastErr = ErrVendorExists
         /\ lastStatus = StatusLocal => lastErr = ErrLocalPackage
         /\ lastStatus \in {StatusUnknown, StatusMissing, StatusStd, StatusUnused} =>
              lastErr = [Kind |-> "ErrNotInGOPATH", Missing |-> lastImportPath]

\* CmdAdd turned down a package of the project itself
AddStatusCheckWitness ==
  /\ lastCmd = "Add"
  /\ lastStage = "status"
  /\ lastStatus = StatusLocal
  /\ lastErr = ErrLocalPackage

\* C3: a CmdAdd that returns from its status check leaves the manifest,
\* the package files and the source files as they were, and calls no rewrite
AddStatusFailureChangesNothing ==
  [][lastCmd' = "Add" /\ lastStage' = "status" =>
       /\ UNCHANGED disk
       /\ lastRewrite' = NoRewrite]_vars

\* CmdAdd turned down an already vendored package while the manifest had
\* an entry
AddStatusFailureWitness ==
  /\ lastCmd = "Add"
  /\ lastStage = "status"
  /\ lastErr = ErrVendorExists
  /\ Len(vendorFile.Package) >= 1

\* the final component of a slash-separated path
FinalComponent(p) == LET ss == Split(p, Slash) IN ss[Len(ss)]

\* what follows the last occurrence of sep in p, all of p when there is none
AfterLast(p, sep) ==
  LET hits == {i \in 1..(Len(p) - Len(sep) + 1) : SubSeq(p, i, i + Len(sep) - 1) = sep}
  IN IF hits = {} THEN p
     ELSE LET last == CHOOSE i \in hits : \A j \in hits : j <= i
          IN SubSeq(p, last + Len(sep), Len(p))

InitFailsExactlyWhenPresent ==
  [][lastCmd' = "Init" =>
       /\ lastErr' = ErrVendorFileExists => vendorFilePresent
       /\ vendorFilePresent => lastErr' \in {ErrVendorFileExists, Err("GetwdError")}
       /\ lastErr' = ErrVendorFileExists => UNCHANGED disk
       /\ lastErr' = Nil =>
            /\ internalNode' = "dir"
            /\ vendorFilePresent'
            /\ vendorFile' = [Tool |-> toolName, Package |-> <<>>]]_vars

\* C6: a CmdAdd that fails in CopyPackage, in the second LoadPackage or in
\* RewriteFiles returns that error and leaves the new entry in the
\* persisted manifest; the copy has happened only if the entry was
\* persisted and the rewrite only if the copy happened: after a failed
\* write nothing changed, after a failed copy no file was copied or
\* rewritten, after a failed reload or rewrite the files are copied and no
\* file was rewritten
AddPersistsBeforeCopyBeforeRewrite ==
  [][lastCmd' = "Add" =>
       /\ lastStage' = "write" => UNCHANGED disk
       /\ lastStage' \in {"copy", "reload", "rewrite"} =>
            /\ lastErr'.Kind = CASE lastStage' = "copy" -> "CopyError"
                                 [] lastStage' = "reload" -> "LoadError"
                                 [] lastStage' = "rewrite" -> "RewriteError"
            /\ Len(vendorFile'.Package) = Len(vendorFile.Package) + 1
            /\ LastPackage(vendorFile').Vendor = slashToImportPath(lastArg')
            /\ \A f \in DOMAIN tree : f \in DOMAIN tree' /\ tree'[f] = tree[f]
       /\ lastStage' = "copy" => tree' = tree
       /\ lastStage' \in {"reload", "rewrite"} =>
            /\ ~DirExists(tree, LastPackage(vendorFile').Local)
            /\ DirExists(tree', LastPackage(vendorFile').Local)
            /\ \A f \in DOMAIN tree' \ DOMAIN tree :
                 \E g \in DOMAIN tree : g[1] = slashToImportPath(lastArg') /\ tree'[f] = tree[g]]_vars

\* the manifest lists a package whose files were never copied and which
\* the project still imports under its original path
AddPersistsWitness ==
  /\ lastCmd = "Add"
  /\ lastStage = "copy"
  /\ lastErr = Err("CopyError")
  /\ ~DirExists(tree, LastPackage(vendorFile).Local)
  /\ LastPackage(vendorFile).Vendor \in Imported(tree)

IsPrefix(s, t) == Len(s) <= Len(t) /\ SubSeq(t, 1, Len(s)) = s

\* C7: the manifest is append-only: every step keeps the persisted entries
\* in place and unchanged, the file is never removed, only a successful
\* CmdInit creates it, empty, and only CmdAdd extends it, by exactly one
\* entry at the end in every call that gets past the manifest write
ManifestAppendOnly ==
  [][/\ IsPrefix(vendorFile.Package, vendorFile'.Package)
     /\ vendorFilePresent => vendorFilePresent' /\ vendorFile'.Tool = vendorFile.Tool
     /\ ~vendorFilePresent /\ vendorFilePresent' =>
          lastCmd' = "Init" /\ lastErr' = Nil /\ vendorFile'.Package = <<>>
     /\ vendorFile'.Package # vendorFile.Package =>
          lastCmd' = "Add" /\ Len(vendorFile'.Package) = Len(vendorFile.Package) + 1
     /\ lastCmd' = "Add" /\ lastStage' \in {"copy", "reload", "rewrite", "done"} =>
          Len(vendorFile'.Package) = Len(vendorFile.Package) + 1
     /\ lastCmd' = "Add" /\ lastStage' \notin {"copy", "reload", "rewrite", "done"} =>
          vendorFile' = vendorFile]_vars

\* a second entry was appended behind a first one
ManifestAppendOnlyWitness ==
  /\ AddWrote
  /\ Len(vendorFile.Package) = 2
  /\ vendorFile.Package[1].Vendor # vendorFile.Package[2].Vendor

AddRewritesReloadedFiles ==
  [][lastCmd' = "Add" /\ lastStage' = "done" =>
       LET importPath == slashToImportPath(lastArg')
           entry == LastPackage(vendorFile')
           copied == CopyPackage(tree, importPath, entry.Local)
       IN /\ lastRewrite'.called
          /\ lastRewrite'.rules = <<[From |-> importPath, To |-> entry.Local]>>
          /\ entry.Vendor = importPath
          /\ lastRewrite'.files = {f \in ProjectFiles(copied) : importPath \in copied[f]}
          /\ tree' = RewriteFiles(copied, lastRewrite'.files, lastRewrite'.rules)]_vars

\* the rewrite covered a file that only the copy brought into the
\* project, for an argument typed with a backslash
AddRewritesReloadedFilesWitness ==
  /\ lastCmd = "Add"
  /\ lastStage = "done"
  /\ lastArg = ArgEBackslashF
  /\ <<PathRIEF, "f_test.go">> \in lastRewrite.files
  /\ <<RootImportPath, "main.go">> \in lastRewrite.files
  /\ tree[<<PathRIEF, "f_test.go">>] = {PathRIEF}

\* C10 as stated: the persisted manifest never holds two entries with the
\* same VendorPath, nor two with the same LocalPath
ManifestNoDuplicates ==
  \A i, j \in DOMAIN vendorFile.Package :
    i # j => /\ vendorFile.Package[i].Vendor # vendorFile.Package[j].Vendor
             /\ vendorFile.Package[i].Local # vendorFile.Package[j].Local

====
